---- MODULE Spec2Model ----
(***************************************************************************)
(* Model of src/utils.py: the closed-form latency / energy formulas of the *)
(* idle-node assisted edge-computing model.                                *)
(*                                                                         *)
(* Every quantity of the program is a Python float.  The model keeps the   *)
(* float semantics that the formulas run under: binary floating point with *)
(* round-to-nearest-even after every operation, gradual underflow,         *)
(* overflow to infinity, NaN, and the two exceptions Python raises         *)
(* (ZeroDivisionError from `/`, ValueError from math.log2).  The format is *)
(* a scaled-down IEEE-754 format: Prec significand bits and ulp exponents  *)
(* Emin..Emax stand for the 53 bits and -1074..971 of a double.  The two   *)
(* zeros compare equal in Python and are one value here.  math.log2 is     *)
(* computed to the precision of the format by repeated squaring.           *)
(***************************************************************************)
EXTENDS Integers, Naturals, Sequences, FiniteSets, TLC

\* ------------------------------------------------------------------------
\* Bounds of the floating-point format
\* ------------------------------------------------------------------------
Prec == 8
EminDepth == 12
Emax == 5

\* the exponent of the smallest subnormal
Emin == -EminDepth

\* guard bits of the fixed-point significand used inside Log2
LogGuard == 22 - Prec

\* ------------------------------------------------------------------------
\* Integer helpers
\* ------------------------------------------------------------------------
RECURSIVE Pow2(_)
Pow2(n) == IF n <= 0 THEN 1 ELSE 2 * Pow2(n - 1)

RECURSIVE BitLen(_)
BitLen(n) == IF n <= 0 THEN 0 ELSE 1 + BitLen(n \div 2)

Abs(n) == IF n < 0 THEN -n ELSE n

Sgn(n) == IF n < 0 THEN -1 ELSE IF n = 0 THEN 0 ELSE 1

MinI(a, b) == IF a <= b THEN a ELSE b

MaxI(a, b) == IF a >= b THEN a ELSE b

\* ------------------------------------------------------------------------
\* Float values <<kind, m, e>>: a finite value is m * 2^e with |m| < 2^Prec,
\* in normal form (|m| >= 2^(Prec-1), or e = Emin for subnormals and zero).
\* ------------------------------------------------------------------------
Fin(m, e) == <<"fin", m, e>>

NaN == <<"nan", 0, 0>>

PInf == <<"inf", 1, 0>>

NInf == <<"inf", -1, 0>>

Zero == Fin(0, Emin)

\* the outcomes of a call that raises
ZeroDivisionError == <<"ZeroDivisionError", 0, 0>>

ValueError == <<"ValueError", 0, 0>>

IsFin(a) == a[1] = "fin"

IsNaN(a) == a[1] = "nan"

IsInf(a) == a[1] = "inf"

IsErr(a) == a[1] \in {"ZeroDivisionError", "ValueError"}

IsZero(a) == a[1] = "fin" /\ a[2] = 0

\* round the magnitude n * 2^e (n > 0) to Prec bits, ties to even
RoundMag(n, e) ==
  LET et == MaxI(e + BitLen(n) - Prec, Emin)
  IN IF et <= e
       THEN <<n * Pow2(e - et), et>>
       ELSE LET sh   == et - e
                q    == n \div Pow2(sh)
                r    == n % Pow2(sh)
                half == Pow2(sh - 1)
                up   == r > half \/ (r = half /\ q % 2 = 1)
                m    == IF up THEN q + 1 ELSE q
            IN IF m = Pow2(Prec) THEN <<Pow2(Prec - 1), et + 1>> ELSE <<m, et>>

\* the float nearest to the exact value n * 2^e
Round(n, e) ==
  IF n = 0 THEN Zero
  ELSE LET r == RoundMag(Abs(n), e)
       IN IF r[1] = 0 THEN Zero
          ELSE IF r[2] > Emax THEN (IF n > 0 THEN PInf ELSE NInf)
          ELSE Fin(Sgn(n) * r[1], r[2])

FNeg(a) ==
  IF IsFin(a) THEN Fin(-a[2], a[3])
  ELSE IF IsInf(a) THEN <<a[1], -a[2], a[3]>>
  ELSE a

\* Python float +
FAdd(a, b) ==
  IF IsNaN(a) \/ IsNaN(b) THEN NaN
  ELSE IF IsInf(a) /\ IsInf(b) THEN (IF a[2] = b[2] THEN a ELSE NaN)
  ELSE IF IsInf(a) THEN a
  ELSE IF IsInf(b) THEN b
  ELSE LET e0 == MinI(a[3], b[3])
       IN Round(a[2] * Pow2(a[3] - e0) + b[2] * Pow2(b[3] - e0), e0)

\* Python float -
FSub(a, b) == FAdd(a, FNeg(b))

\* Python float *
FMul(a, b) ==
  IF IsNaN(a) \/ IsNaN(b) THEN NaN
  ELSE IF IsInf(a) \/ IsInf(b)
    THEN (IF IsZero(a) \/ IsZero(b) THEN NaN
          ELSE IF Sgn(a[2]) * Sgn(b[2]) > 0 THEN PInf ELSE NInf)
  ELSE Round(a[2] * b[2], a[3] + b[3])

\* Python float /  (raises ZeroDivisionError on a zero divisor)
FDiv(a, b) ==
  IF IsZero(b) THEN ZeroDivisionError
  ELSE IF IsNaN(a) \/ IsNaN(b) THEN NaN
  ELSE IF IsInf(a)
    THEN (IF IsInf(b) THEN NaN
          ELSE IF Sgn(a[2]) * Sgn(b[2]) > 0 THEN PInf ELSE NInf)
  ELSE IF IsInf(b) THEN Zero
  ELSE IF IsZero(a) THEN Zero
  ELSE LET sa  == Prec - BitLen(Abs(a[2]))
           num == Abs(a[2]) * Pow2(sa) * Pow2(Prec + 2)
           den == Abs(b[2])
           q   == num \div den
           st  == IF num % den = 0 THEN 0 ELSE 1
       IN Round(Sgn(a[2]) * Sgn(b[2]) * (2 * q + st),
                a[3] - sa - (Prec + 2) - b[3] - 1)

\* Python float <  (false when either side is NaN)
FLt(a, b) ==
  IF IsNaN(a) \/ IsNaN(b) THEN FALSE
  ELSE IF IsInf(a) THEN a[2] < 0 /\ b # a
  ELSE IF IsInf(b) THEN b[2] > 0
  ELSE LET e0 == MinI(a[3], b[3])
       IN a[2] * Pow2(a[3] - e0) < b[2] * Pow2(b[3] - e0)

\* Python float ==
FEq(a, b) == ~IsNaN(a) /\ ~IsNaN(b) /\ a = b

\* Python float <=
FLe(a, b) == FLt(a, b) \/ FEq(a, b)

\* Python float >
FGt(a, b) == FLt(b, a)

\* Python float >=
FGe(a, b) == FLe(b, a)

\* Python builtin max(a, b): b replaces a only when b > a
PyMax(a, b) == IF FGt(b, a) THEN b ELSE a

\* fractional bits of log2(y / 2^LogGuard), y a fixed-point value in [1, 2)
RECURSIVE LogFrac(_, _)
LogFrac(y, nbits) ==
  IF nbits = 0 THEN 0
  ELSE LET y2 == (y * y) \div Pow2(LogGuard)
       IN IF y2 >= Pow2(LogGuard + 1)
            THEN Pow2(nbits - 1) + LogFrac(y2 \div 2, nbits - 1)
            ELSE LogFrac(y2, nbits - 1)

\* math.log2 (raises ValueError outside its domain)
Log2(a) ==
  IF IsNaN(a) THEN NaN
  ELSE IF a = PInf THEN PInf
  ELSE IF a = NInf \/ a[2] <= 0 THEN ValueError
  ELSE LET bl == BitLen(a[2])
           ip == a[3] + bl - 1
           y0 == a[2] * Pow2(LogGuard - (bl - 1))
           nb == Prec + 4
           st == IF a[2] = Pow2(bl - 1) THEN 0 ELSE 1
           L  == ip * Pow2(nb) + LogFrac(y0, nb)
       IN Round(2 * L + st, -nb - 1)

\* the float of the Python literals 0 and 1
One == Round(1, 0)


\* ------------------------------------------------------------------------
\* The formulas of src/utils.py
\* ------------------------------------------------------------------------
\* variants of the local execution time with one slip each:
\* the offloaded share x in place of the retained share 1 - x
time_on_local_offloaded_share(C, d, F, x) ==
  FDiv(FMul(FMul(x, C), d), F)

\* 1 + x in place of 1 - x
time_on_local_plus(C, d, F, x) ==
  FDiv(FMul(FMul(FAdd(One, x), C), d), F)

\* x - 1 in place of 1 - x
time_on_local_reversed(C, d, F, x) ==
  FDiv(FMul(FMul(FSub(x, One), C), d), F)

\* a fallback value for a zero computing power
time_on_local_fallback(C, d, F, x) ==
  IF IsZero(F) THEN Zero ELSE FDiv(FMul(FMul(FSub(One, x), C), d), F)

calculate_task_execution_time_on_local(C, d, F, x) ==
  FDiv(FMul(FMul(FSub(One, x), C), d), F)

calculate_full_task_execution_time_on_local(C, d, F) ==
  calculate_task_execution_time_on_local(C, d, F, Zero)

calculate_task_execution_energy_consumption_on_local(C, d, theta_exe, x) ==
  LET b == FMul(C, d)
  IN FMul(FMul(b, FSub(One, x)), theta_exe)

calculate_full_task_execution_energy_consumption_on_local(C, d, theta_exe) ==
  calculate_task_execution_energy_consumption_on_local(C, d, theta_exe, Zero)

\* variant of the MEC time that runs the relayed share omega
time_on_mec_relayed_share(x, d, omega, C, f) ==
  LET I == FMul(x, d)
  IN FDiv(FMul(FMul(C, omega), I), f)

calculate_partial_task_execution_time_on_mec(x, d, omega, C, f) ==
  LET I == FMul(x, d)
  IN FDiv(FMul(FMul(C, FSub(One, omega)), I), f)

\* variant of the MEC energy that charges the relayed share omega
energy_on_mec_relayed_share(x, d, omega, C, theta_exe) ==
  LET I == FMul(x, d)
  IN FMul(FMul(FMul(C, omega), I), theta_exe)

calculate_partial_task_execution_energy_consumption_on_mec(x, d, omega, C, theta_exe) ==
  LET I == FMul(x, d)
  IN FMul(FMul(FMul(C, FSub(One, omega)), I), theta_exe)

calculate_partial_task_execution_time_on_id(C, omega, x, d, f_id) ==
  LET I == FMul(x, d)
  IN FDiv(FMul(FMul(C, omega), I), f_id)

calculate_partial_task_execution_energy_consumption_on_ID(C, omega, x, d, theta_exe) ==
  LET I == FMul(x, d)
  IN FMul(FMul(FMul(C, omega), I), theta_exe)

calculate_sinr_eu_to_bs(P_tran_i_bs, G_i_bs, sigma_sq, interference_sum) ==
  FDiv(FMul(P_tran_i_bs, G_i_bs), FAdd(sigma_sq, interference_sum))

calculate_sinr_bs_to_id(P_tran_bs_j, G_bs_j, sigma_sq) ==
  FDiv(FMul(P_tran_bs_j, G_bs_j), sigma_sq)

\* variant of the rate without the 1 + of the Shannon formula
transmission_rate_log_of_sinr(B_m, sinr) ==
  LET l == Log2(sinr)
  IN IF IsErr(l) THEN l ELSE FMul(B_m, l)

calculate_transmission_rate(B_m, sinr) ==
  LET l == Log2(FAdd(One, sinr))
  IN IF IsErr(l) THEN l ELSE FMul(B_m, l)

calculate_eu_to_bs_transmission_time(x, d, R_i_bs) ==
  FDiv(FMul(x, d), R_i_bs)

calculate_bs_to_id_transmission_time(omega, x, d, R_bs_j) ==
  FDiv(FMul(FMul(omega, x), d), R_bs_j)

calculate_eu_transmission_energy(P_tran_i_bs, t_tran_i_bs, theta_tran) ==
  FMul(FMul(P_tran_i_bs, t_tran_i_bs), theta_tran)

calculate_bs_transmission_energy(P_tran_bs_j, t_tran_bs_j, theta_tran) ==
  FMul(FMul(P_tran_bs_j, t_tran_bs_j), theta_tran)

\* variants of the offloading delay: the EU->BS time inside the MEC branch
\* only, and the BS->ID time subtracted from the ID branch
offloading_delay_mec_branch_only(t_tran_i_bs, t_mec, t_id, t_tran_bs_j) ==
  PyMax(FAdd(t_tran_i_bs, t_mec), FAdd(t_id, t_tran_bs_j))

offloading_delay_minus(t_tran_i_bs, t_mec, t_id, t_tran_bs_j) ==
  FAdd(t_tran_i_bs, PyMax(t_mec, FSub(t_id, t_tran_bs_j)))

calculate_offloading_delay(t_tran_i_bs, t_mec, t_id, t_tran_bs_j) ==
  FAdd(t_tran_i_bs, PyMax(t_mec, FAdd(t_id, t_tran_bs_j)))

\* variant of the total time that keeps the smaller value
total_task_time_min(t_local, t_off) ==
  IF FLt(t_off, t_local) THEN t_off ELSE t_local

calculate_total_task_time(t_local, t_off) ==
  PyMax(t_local, t_off)

\* ------------------------------------------------------------------------
\* Arguments the caller supplies.  The sets hold contract-conforming values
\* (exactly representable ones, ones whose products round, ones whose
\* products overflow) and the contract violations of section 7 of the
\* specification (zero denominators, ratios outside [0,1], sinr <= -1).
\* ------------------------------------------------------------------------
\* ratios inside [0,1]
UnitRatios ==
  {Zero, Round(1, -2), Round(3, -3), Round(1, -1), Round(5, -3),
   Round(3, -2), One}

\* ratios x, omega handed to the formulas (two of them outside [0,1])
Ratios == UnitRatios \cup {Round(-1, 0), Round(2, 0)}

\* CPU cycles per bit C
Cycles == {One, Round(3, 0), Round(11, 0), Round(1, 7)}

\* task data sizes d
Sizes == {Zero, One, Round(5, 0), Round(13, 0), Round(1, 7)}

\* computing powers F, f, f_id and rates R_i_bs, R_bs_j
Powers == {Zero, One, Round(3, 0), Round(1, 3)}

\* energy costs theta_exe, theta_tran
Thetas == {Zero, One, Round(3, 0)}

\* transmission powers and transmission times of the energy formulas
TranVals == {Zero, One, Round(5, 0), Round(1, 7)}

\* channel gains and noise / interference powers
Gains == {Zero, Round(1, -2), One}

Noises == {Zero, Round(1, -2), One, Round(2, 0)}

\* bandwidths B_m
Bands == {One, Round(3, 0), Round(1, 3)}

\* SINR values handed to the rate formula (three of them <= -1 or negative)
Sinrs ==
  {Round(-2, 0), Round(-1, 0), Round(-1, -1), Zero, Round(1, -4), One,
   Round(3, 0), Round(7, 0), Round(15, 3)}

\* times handed to the delay and total-time formulas
Times ==
  {Zero, One, Round(2, 0), Round(4, 0), Round(10, 0), Round(13, 0),
   Round(255, -4), Round(15, Emax)}

\* ------------------------------------------------------------------------
\* State: one call of the caller.  fn and args are the function it calls
\* and the arguments it passes, pc is "call" before the function has run
\* and "done" after, out is the outcome of the call.
\* ------------------------------------------------------------------------
VARIABLES pc, fn, args, out

vars == <<pc, fn, args, out>>

ArgSets ==
  [calculate_task_execution_time_on_local |->
     Cycles \X Sizes \X Powers \X Ratios,
   calculate_full_task_execution_time_on_local |->
     Cycles \X Sizes \X Powers,
   calculate_task_execution_energy_consumption_on_local |->
     Cycles \X Sizes \X Thetas \X Ratios,
   calculate_full_task_execution_energy_consumption_on_local |->
     Cycles \X Sizes \X Thetas,
   calculate_partial_task_execution_time_on_mec |->
     Ratios \X Sizes \X Ratios \X Cycles \X Powers,
   calculate_partial_task_execution_energy_consumption_on_mec |->
     Ratios \X Sizes \X Ratios \X Cycles \X Thetas,
   calculate_partial_task_execution_time_on_id |->
     Cycles \X Ratios \X Ratios \X Sizes \X Powers,
   calculate_partial_task_execution_energy_consumption_on_ID |->
     Cycles \X Ratios \X Ratios \X Sizes \X Thetas,
   calculate_sinr_eu_to_bs |-> TranVals \X Gains \X Noises \X Noises,
   calculate_sinr_bs_to_id |-> TranVals \X Gains \X Noises,
   calculate_transmission_rate |-> Bands \X Sinrs,
   calculate_eu_to_bs_transmission_time |-> Ratios \X Sizes \X Powers,
   calculate_bs_to_id_transmission_time |->
     Ratios \X Ratios \X Sizes \X Powers,
   calculate_eu_transmission_energy |-> TranVals \X TranVals \X Thetas,
   calculate_bs_transmission_energy |-> TranVals \X TranVals \X Thetas,
   calculate_offloading_delay |-> Times \X Times \X Times \X Times,
   calculate_total_task_time |-> Times \X Times]

Init ==
  /\ pc = "call"
  /\ fn \in DOMAIN ArgSets
  /\ args \in ArgSets[fn]
  /\ out = Zero

Returned(name, r) ==
  /\ pc = "call"
  /\ fn = name
  /\ pc' = "done"
  /\ out' = r
  /\ UNCHANGED <<fn, args>>

Call_time_local ==
  Returned("calculate_task_execution_time_on_local",
           calculate_task_execution_time_on_local(args[1], args[2], args[3], args[4]))

Call_full_time_local ==
  Returned("calculate_full_task_execution_time_on_local",
           calculate_full_task_execution_time_on_local(args[1], args[2], args[3]))

Call_energy_local ==
  Returned("calculate_task_execution_energy_consumption_on_local",
           calculate_task_execution_energy_consumption_on_local(args[1], args[2], args[3], args[4]))

Call_full_energy_local ==
  Returned("calculate_full_task_execution_energy_consumption_on_local",
           calculate_full_task_execution_energy_consumption_on_local(args[1], args[2], args[3]))

Call_time_mec ==
  Returned("calculate_partial_task_execution_time_on_mec",
           calculate_partial_task_execution_time_on_mec(args[1], args[2], args[3], args[4], args[5]))

Call_energy_mec ==
  Returned("calculate_partial_task_execution_energy_consumption_on_mec",
           calculate_partial_task_execution_energy_consumption_on_mec(args[1], args[2], args[3], args[4], args[5]))

Call_time_id ==
  Returned("calculate_partial_task_execution_time_on_id",
           calculate_partial_task_execution_time_on_id(args[1], args[2], args[3], args[4], args[5]))

Call_energy_ID ==
  Returned("calculate_partial_task_execution_energy_consumption_on_ID",
           calculate_partial_task_execution_energy_consumption_on_ID(args[1], args[2], args[3], args[4], args[5]))

Call_sinr_eu_to_bs ==
  Returned("calculate_sinr_eu_to_bs",
           calculate_sinr_eu_to_bs(args[1], args[2], args[3], args[4]))

Call_sinr_bs_to_id ==
  Returned("calculate_sinr_bs_to_id",
           calculate_sinr_bs_to_id(args[1], args[2], args[3]))

Call_transmission_rate ==
  Returned("calculate_transmission_rate",
           calculate_transmission_rate(args[1], args[2]))

Call_eu_to_bs_time ==
  Returned("calculate_eu_to_bs_transmission_time",
           calculate_eu_to_bs_transmission_time(args[1], args[2], args[3]))

Call_bs_to_id_time ==
  Returned("calculate_bs_to_id_transmission_time",
           calculate_bs_to_id_transmission_time(args[1], args[2], args[3], args[4]))

Call_eu_energy ==
  Returned("calculate_eu_transmission_energy",
           calculate_eu_transmission_energy(args[1], args[2], args[3]))

Call_bs_energy ==
  Returned("calculate_bs_transmission_energy",
           calculate_bs_transmission_energy(args[1], args[2], args[3]))

Call_offloading_delay ==
  Returned("calculate_offloading_delay",
           calculate_offloading_delay(args[1], args[2], args[3], args[4]))

Call_total_task_time ==
  Returned("calculate_total_task_time",
           calculate_total_task_time(args[1], args[2]))

Next ==
  \/ Call_time_local
  \/ Call_full_time_local
  \/ Call_energy_local
  \/ Call_full_energy_local
  \/ Call_time_mec
  \/ Call_energy_mec
  \/ Call_time_id
  \/ Call_energy_ID
  \/ Call_sinr_eu_to_bs
  \/ Call_sinr_bs_to_id
  \/ Call_transmission_rate
  \/ Call_eu_to_bs_time
  \/ Call_bs_to_id_time
  \/ Call_eu_energy
  \/ Call_bs_energy
  \/ Call_offloading_delay
  \/ Call_total_task_time

Spec == Init /\ [][Next]_vars


\* ------------------------------------------------------------------------
\* Vocabulary of the properties
\* ------------------------------------------------------------------------
Done(name) == pc = "done" /\ fn = name

Pos(a) == FGt(a, Zero)

NonNeg(a) == FGe(a, Zero)

InUnit(a) == FGe(a, Zero) /\ FLe(a, One)

\* the larger of two comparable values, stated without the builtin max
IsLarger(r, a, b) == r \in {a, b} /\ FGe(r, a) /\ FGe(r, b)

C2_DelayFormula ==
  (Done("calculate_offloading_delay")
    /\ (\A i \in 1..4 : NonNeg(args[i])))
  => /\ \E b \in {args[2], FAdd(args[3], args[4])} :
          /\ IsLarger(b, args[2], FAdd(args[3], args[4]))
          /\ out = FAdd(args[1], b)
     /\ (args = <<Round(2, 0), Round(10, 0), Round(4, 0), One>>
          => out = Round(12, 0))

C2_Witness ==
  /\ Done("calculate_offloading_delay")
  /\ args = <<Round(2, 0), Round(10, 0), Round(4, 0), One>>
  /\ out = Round(12, 0)

\* ------------------------------------------------------------------------
\* C3: the offloading delay is monotonically non-decreasing in each of its
\* four inputs: raising one argument never lowers the delay.
\* ------------------------------------------------------------------------
C3_DelayMonotone ==
  Done("calculate_offloading_delay")
  => \A i \in 1..4 : \A v \in Times :
       FGe(v, args[i])
       => LET a == [args EXCEPT ![i] = v]
          IN FGe(calculate_offloading_delay(a[1], a[2], a[3], a[4]), out)

\* raising t_tran_bs_j from 1 to 13 moves the delay off the MEC branch
C3_Witness ==
  /\ Done("calculate_offloading_delay")
  /\ args = <<One, Round(4, 0), Round(2, 0), One>>
  /\ out = Round(5, 0)
  /\ FGt(calculate_offloading_delay(args[1], args[2], args[3], Round(13, 0)), out)

\* ------------------------------------------------------------------------
\* C4: for a, b >= 0 the total task time is the larger of a and b, and
\* applying it again with the same a changes nothing.
\* ------------------------------------------------------------------------
C4_TotalIsMax ==
  (Done("calculate_total_task_time") /\ NonNeg(args[1]) /\ NonNeg(args[2]))
  => /\ IsLarger(out, args[1], args[2])
     /\ calculate_total_task_time(args[1], out) = out

C4_Witness ==
  /\ Done("calculate_total_task_time")
  /\ FLt(args[1], args[2])
  /\ out = args[2]


\* ------------------------------------------------------------------------
\* The contract of section 3 of the specification, per function: the
\* positions of the ratio arguments (x, omega) and of the denominators
\* (F, f, f_id, R_i_bs, R_bs_j)
\* ------------------------------------------------------------------------
RatioPos ==
  [calculate_task_execution_time_on_local |-> {4},
   calculate_full_task_execution_time_on_local |-> {},
   calculate_task_execution_energy_consumption_on_local |-> {4},
   calculate_full_task_execution_energy_consumption_on_local |-> {},
   calculate_partial_task_execution_time_on_mec |-> {1, 3},
   calculate_partial_task_execution_energy_consumption_on_mec |-> {1, 3},
   calculate_partial_task_execution_time_on_id |-> {2, 3},
   calculate_partial_task_execution_energy_consumption_on_ID |-> {2, 3},
   calculate_eu_to_bs_transmission_time |-> {1},
   calculate_bs_to_id_transmission_time |-> {1, 2},
   calculate_eu_transmission_energy |-> {},
   calculate_bs_transmission_energy |-> {},
   calculate_offloading_delay |-> {},
   calculate_total_task_time |-> {}]

DenomPos ==
  [calculate_task_execution_time_on_local |-> {3},
   calculate_full_task_execution_time_on_local |-> {3},
   calculate_task_execution_energy_consumption_on_local |-> {},
   calculate_full_task_execution_energy_consumption_on_local |-> {},
   calculate_partial_task_execution_time_on_mec |-> {5},
   calculate_partial_task_execution_energy_consumption_on_mec |-> {},
   calculate_partial_task_execution_time_on_id |-> {5},
   calculate_partial_task_execution_energy_consumption_on_ID |-> {},
   calculate_eu_to_bs_transmission_time |-> {3},
   calculate_bs_to_id_transmission_time |-> {4},
   calculate_eu_transmission_energy |-> {},
   calculate_bs_transmission_energy |-> {},
   calculate_offloading_delay |-> {},
   calculate_total_task_time |-> {}]

\* the time and energy functions
TimeEnergyFns == DOMAIN RatioPos

\* a finished call of a time or energy function inside its contract
ValidCall ==
  /\ pc = "done"
  /\ fn \in TimeEnergyFns
  /\ \A i \in 1..Len(args) : NonNeg(args[i])
  /\ \A i \in RatioPos[fn] : FLe(args[i], One)
  /\ \A i \in DenomPos[fn] : Pos(args[i])

\* an energy call whose cycle count (or power-time product) overflowed to
\* +infinity and then met a zero factor
OverflowTimesZero ==
  \/ /\ fn = "calculate_task_execution_energy_consumption_on_local"
     /\ FMul(args[1], args[2]) = PInf
     /\ (args[4] = One \/ args[3] = Zero)
  \/ /\ fn = "calculate_full_task_execution_energy_consumption_on_local"
     /\ FMul(args[1], args[2]) = PInf
     /\ args[3] = Zero
  \/ /\ fn = "calculate_partial_task_execution_energy_consumption_on_mec"
     /\ FMul(FMul(args[4], FSub(One, args[3])), FMul(args[1], args[2])) = PInf
     /\ args[5] = Zero
  \/ /\ fn = "calculate_partial_task_execution_energy_consumption_on_ID"
     /\ FMul(FMul(args[1], args[2]), FMul(args[3], args[4])) = PInf
     /\ args[5] = Zero
  \/ /\ fn \in {"calculate_eu_transmission_energy",
                "calculate_bs_transmission_energy"}
     /\ FMul(args[1], args[2]) = PInf
     /\ args[3] = Zero

\* ------------------------------------------------------------------------
\* C5 as stated: every time and energy function returns a non-negative
\* value whenever its inputs are non-negative, the ratios lie in [0,1] and
\* every denominator is strictly positive.
\* ------------------------------------------------------------------------
C5_Original == ValidCall => NonNeg(out)

\* C5 as amended: under the same conditions no time or energy function
\* returns a negative value: the result is non-negative, except that an
\* energy function returns NaN when its cycle count (or power-time product)
\* overflows to +infinity and is then multiplied by a zero factor.
C5_NeverNegative ==
  ValidCall => \/ NonNeg(out)
               \/ IsNaN(out) /\ OverflowTimesZero

\* C = 128, d = 128 overflow the cycle count, theta_exe = 0 turns it into NaN
C5_Witness ==
  /\ ValidCall
  /\ fn = "calculate_task_execution_energy_consumption_on_local"
  /\ args = <<Round(1, 7), Round(1, 7), Zero, Round(1, -1)>>
  /\ IsNaN(out)

\* ------------------------------------------------------------------------
\* C6: for fixed C > 0, d >= 0, F > 0 the local execution time is
\* monotonically non-increasing in x over [0,1] and is 0 at x = 1.
\* ------------------------------------------------------------------------
C6_LocalTimeNonIncreasing ==
  (Done("calculate_task_execution_time_on_local")
     /\ Pos(args[1]) /\ NonNeg(args[2]) /\ Pos(args[3]) /\ InUnit(args[4]))
  => /\ \A x2 \in UnitRatios :
          FLe(args[4], x2)
          => FGe(out, calculate_task_execution_time_on_local(args[1], args[2], args[3], x2))
     /\ (args[4] = One => out = Zero)

\* C = 11, d = 13, F = 3: strictly more time at x = 1/4 than at x = 3/4
C6_Witness ==
  /\ Done("calculate_task_execution_time_on_local")
  /\ args = <<Round(11, 0), Round(13, 0), Round(3, 0), Round(1, -2)>>
  /\ FGt(out, calculate_task_execution_time_on_local(args[1], args[2], args[3], Round(3, -2)))
  /\ Pos(calculate_task_execution_time_on_local(args[1], args[2], args[3], Round(3, -2)))

\* ------------------------------------------------------------------------
\* C7: domain violations are not clamped or replaced by a fallback: a zero
\* denominator (F, f, f_id, R_i_bs, R_bs_j, sigma_sq + interference_sum)
\* raises at the division, sinr <= -1 raises at the logarithm, and a ratio
\* outside [0,1] is used as given.
\* ------------------------------------------------------------------------
C7_NoClamping ==
  /\ (pc = "done" /\ fn \in TimeEnergyFns
        /\ (\E i \in DenomPos[fn] : IsZero(args[i])))
     => out = ZeroDivisionError
  /\ (Done("calculate_sinr_eu_to_bs") /\ IsZero(FAdd(args[3], args[4])))
     => out = ZeroDivisionError
  /\ (Done("calculate_transmission_rate") /\ FLe(args[2], Round(-1, 0)))
     => out = ValueError
  /\ (Done("calculate_task_execution_time_on_local")
        /\ ~IsZero(args[3]) /\ args[4] = Round(2, 0))
     => out = FNeg(calculate_task_execution_time_on_local(args[1], args[2], args[3], Zero))
  /\ (Done("calculate_task_execution_time_on_local")
        /\ Pos(args[3]) /\ args[4] = Round(-1, 0))
     => LET full == calculate_task_execution_time_on_local(args[1], args[2], args[3], Zero)
        IN /\ FGe(out, full)
           /\ (IsFin(full) /\ ~IsZero(full) => FGt(out, full))
  /\ (Done("calculate_partial_task_execution_time_on_mec")
        /\ ~IsZero(args[5]) /\ args[3] = Round(2, 0))
     => out = FNeg(calculate_partial_task_execution_time_on_mec(args[1], args[2], Zero, args[4], args[5]))
  /\ (Done("calculate_partial_task_execution_time_on_id")
        /\ ~IsZero(args[5]) /\ args[2] = Round(-1, 0))
     => out = FNeg(calculate_partial_task_execution_time_on_id(args[1], One, args[3], args[4], args[5]))

\* F = 0 raises instead of returning a number
C7_Witness ==
  /\ Done("calculate_task_execution_time_on_local")
  /\ args = <<Round(3, 0), Round(5, 0), Zero, Round(1, -2)>>
  /\ out = ZeroDivisionError

\* ------------------------------------------------------------------------
\* C8: the transmission rate at sinr = 0 is 0 for every bandwidth B_m > 0,
\* and for sinr >= 0 the rate is non-negative.
\* ------------------------------------------------------------------------
C8_RateAtZeroSinr ==
  (Done("calculate_transmission_rate") /\ Pos(args[1]))
  => /\ (args[2] = Zero => out = Zero)
     /\ (NonNeg(args[2]) => NonNeg(out))

C8_Witness ==
  /\ Done("calculate_transmission_rate")
  /\ args = <<Round(3, 0), Zero>>
  /\ out = Zero


LocalEnergy ==
  calculate_task_execution_energy_consumption_on_local(args[4], args[2], args[5], args[1])

IdEnergy ==
  calculate_partial_task_execution_energy_consumption_on_ID(args[4], args[3], args[1], args[2], args[5])

FullEnergy ==
  calculate_full_task_execution_energy_consumption_on_local(args[4], args[2], args[5])

\* local + MEC + ID, summed left to right
ThreeTierEnergy == FAdd(FAdd(LocalEnergy, out), IdEnergy)

\* MEC + ID
EdgeEnergy == FAdd(out, IdEnergy)

\* C * (x * d) * theta_exe
SliceEnergy == FMul(FMul(args[4], FMul(args[1], args[2])), args[5])

MecEnergyCall ==
  ValidCall /\ fn = "calculate_partial_task_execution_energy_consumption_on_mec"

\* finite a and b differ by at most 16 unit roundoffs (16 * 2^-Prec)
\* relative to b
RelClose(a, b) ==
  /\ IsFin(a) /\ IsFin(b)
  /\ LET e0 == MinI(a[3], b[3])
         sa == a[2] * Pow2(a[3] - e0)
         sb == b[2] * Pow2(b[3] - e0)
     IN Abs(sa - sb) <= Abs(sb) \div Pow2(Prec - 4)

\* ------------------------------------------------------------------------
\* C10 as stated: for x, omega in [0,1] the local, MEC and ID energies add
\* up to the full-local energy C*d*theta_exe, and the MEC and ID energies
\* add up to C*(x*d)*theta_exe.
\* ------------------------------------------------------------------------
C10_Original ==
  MecEnergyCall => /\ ThreeTierEnergy = FullEnergy
                   /\ EdgeEnergy = SliceEnergy

\* C10 as amended: the two sums agree with C*d*theta_exe and with
\* C*(x*d)*theta_exe up to the rounding of the float operations (a relative
\* difference of at most 16 unit roundoffs, 16 * 2^-Prec) whenever no
\* product or sum overflows or underflows; they are exactly equal when x
\* and omega are each 0 or 1.
C10_ConservedUpToRounding ==
  MecEnergyCall =>
    /\ (IsFin(ThreeTierEnergy) /\ IsFin(FullEnergy))
         => RelClose(ThreeTierEnergy, FullEnergy)
    /\ (IsFin(EdgeEnergy) /\ IsFin(SliceEnergy))
         => RelClose(EdgeEnergy, SliceEnergy)
    /\ (IsFin(FullEnergy) /\ args[1] \in {Zero, One} /\ args[3] \in {Zero, One})
         => /\ ThreeTierEnergy = FullEnergy
            /\ EdgeEnergy = SliceEnergy

\* a split whose parts are rounded: the sum is finite and close to, but
\* not equal to, the full-local energy
C10_Witness ==
  /\ MecEnergyCall
  /\ IsFin(ThreeTierEnergy) /\ IsFin(FullEnergy) /\ Pos(FullEnergy)
  /\ ThreeTierEnergy # FullEnergy
  /\ RelClose(ThreeTierEnergy, FullEnergy)

====
